---- MODULE Spec2Model ----
(***************************************************************************)
(* A model of the two browser dashboards of SapAIWithTraining:             *)
(*   - dashboard.js (the Vue application, src/unnamed/part_000): chat,     *)
(*     stats, knowledge items, the safeFetch API client;                   *)
(*   - admin_dashboard.js: the knowledge table with its filter and         *)
(*     pagination, the knowledge / training mutation handlers.             *)
(* The browser is single threaded: every action below is the code that     *)
(* runs between two suspension points (an await of a network request).     *)
(* Text is a sequence of symbols; a symbol is a one-character string or a  *)
(* literal of the program kept whole.                                      *)
(***************************************************************************)
EXTENDS Integers, Sequences, FiniteSets, TLC

VARIABLES
  script,             \* the page that is open: which of the two scripts runs
  messageHtml,        \* a chat message as rendered: its content and its markup
  \* ---- dashboard.js: data() ------------------------------------------
  userInput,          \* this.userInput
  loading,            \* this.loading
  messages,           \* this.messages
  selectedModule,     \* this.selectedModule
  autoDetectModule,   \* this.autoDetectModule
  conversations,      \* this.conversations
  knowledgeItems,     \* this.knowledgeItems (the ids of the items)
  newKnowledge,       \* this.newKnowledge
  trainingData,       \* this.trainingData
  stats,              \* this.stats
  toast,              \* the toast showAlert appended last
  \* ---- the environment of dashboard.js --------------------------------
  now,                \* the value Date.now() returns
  chatRequests,       \* POST /chat requests in flight (their payloads)
  convRequests,       \* GET /conversations requests in flight
  vueFlows,           \* the calls of addKnowledgeItem / deleteItem in progress
  itemCalls,          \* loadKnowledgeItems calls in flight, with their callers
  statsCalls,         \* loadStats calls in flight, with their callers
  \* ---- admin_dashboard.js: module-level state -------------------------
  currentKnowledgePage,   \* let currentKnowledgePage
  knowledgeData,          \* let knowledgeData
  filteredKnowledgeData,  \* let filteredKnowledgeData
  \* ---- admin_dashboard.js: the document -------------------------------
  searchInput,            \* #searchKnowledge . value
  moduleFilter,           \* #moduleFilter . value
  knowledgeTableBody,     \* #knowledgeTableBody . innerHTML
  knowledgePagination,    \* #knowledgePagination . innerHTML
  alertBox,               \* #alert
  statsPanel,             \* #apiStatus, #totalKnowledge, ... (the stats elements)
  activeTab,              \* the tab whose content has the class "active"
  knowledgeForm,          \* #knowledgeForm: its fields and #keywordsContainer
  knowledgeModal,         \* #knowledgeModal has the class "active"
  trainingForm,           \* #trainingForm: its fields
  trainingModal,          \* #trainingModal has the class "active"
  trainingTableBody,      \* #trainingTableBody . innerHTML
  \* ---- the environment of admin_dashboard.js --------------------------
  kbRequests,             \* GET /knowledge?query=&limit=1000 in flight
  adminStatsCalls,        \* loadStats calls in flight, by the fetch awaited
  trainingRequests,       \* GET /training?limit=1000 in flight
  adminRequests,          \* the requests the edit / mutation handlers await
  \* ---- bookkeeping ----------------------------------------------------
  lastOp              \* the handler or continuation that ran last

chatVars == <<userInput, loading, messages, selectedModule, autoDetectModule,
              conversations, now, chatRequests, convRequests>>

kbVars == <<currentKnowledgePage, knowledgeData, filteredKnowledgeData,
            searchInput, moduleFilter, knowledgeTableBody, knowledgePagination,
            kbRequests>>

adminStatsVars == <<statsPanel, adminStatsCalls>>

vueVars == <<knowledgeItems, newKnowledge, trainingData, stats, toast,
             vueFlows, itemCalls, statsCalls>>

adminFormVars == <<activeTab, knowledgeForm, knowledgeModal, trainingForm, trainingModal,
                   trainingTableBody, trainingRequests, adminRequests>>

vars == <<script, messageHtml, chatVars, vueVars, kbVars, adminStatsVars, adminFormVars,
          alertBox, lastOp>>

\* What the handlers of one section leave alone.
nonChatVars == <<script, messageHtml, vueVars, kbVars, adminStatsVars, adminFormVars, alertBox>>
nonVueVars == <<script, messageHtml, chatVars, kbVars, adminStatsVars, adminFormVars, alertBox>>
nonKbVars == <<script, messageHtml, chatVars, vueVars, adminFormVars>>
nonAdminVars == <<script, messageHtml, chatVars, vueVars>>

-----------------------------------------------------------------------------
(* Bounds of the model *)

MaxMessages == 3
MaxClock == 1
MaxItems == 25
MaxPage == 4
MaxInFlight == 1
MaxStatsCalls == 2
MaxKeywords == 2
MaxEdits == 1
MaxBefore == 1
MaxAfter == 3

-----------------------------------------------------------------------------
(* Text *)

Undefined == <<"undefined">>

IsSpace(c) == c = " "

RECURSIVE TrimStart(_)
TrimStart(s) ==
  IF s = <<>> THEN <<>>
  ELSE IF IsSpace(Head(s)) THEN TrimStart(Tail(s)) ELSE s

RECURSIVE TrimEnd(_)
TrimEnd(s) ==
  IF s = <<>> THEN <<>>
  ELSE IF IsSpace(s[Len(s)]) THEN TrimEnd(SubSeq(s, 1, Len(s) - 1)) ELSE s

\* String.prototype.trim
Trim(s) == TrimEnd(TrimStart(s))

-----------------------------------------------------------------------------
(* HTTP: what a fetch of the backend can produce *)

\* fetch rejects: no response at all
NetworkFailure == [net |-> TRUE, ok |-> FALSE, parses |-> FALSE]

\* fetch resolves with a response: response.ok, and whether response.json()
\* parses the body
HttpResponse(ok, parses) == [net |-> FALSE, ok |-> ok, parses |-> parses]

\* The outcomes of a fetch followed by response.json(), without the parsed
\* body; the body is added per endpoint.
Transport ==
  {NetworkFailure} \cup
  {HttpResponse(ok, parses) : ok \in BOOLEAN, parses \in BOOLEAN}

-----------------------------------------------------------------------------
(* dashboard.js: chat *)

ChatInputs == { <<>>, <<" ">>, <<" ", "h", "i", " ">> }

ChatModules == {"general", "payroll"}

\* A parsed body of POST /chat: the answer of the backend, the JSON object of
\* an error (no answer field), an error object that carries an answer field,
\* and the JSON value null.
AnswerBody ==
  [isNull |-> FALSE, answer |-> <<"the answer">>, source |-> <<"knowledge_base">>,
   module |-> <<"payroll">>, detected_module |-> <<"payroll">>,
   confidence |-> <<"0.9">>]

ErrorBody ==
  [isNull |-> FALSE, answer |-> Undefined, source |-> Undefined,
   module |-> Undefined, detected_module |-> Undefined, confidence |-> Undefined]

ErrorAnswerBody ==
  [isNull |-> FALSE, answer |-> <<"Internal Server Error">>, source |-> Undefined,
   module |-> Undefined, detected_module |-> Undefined, confidence |-> Undefined]

NullBody ==
  [isNull |-> TRUE, answer |-> Undefined, source |-> Undefined,
   module |-> Undefined, detected_module |-> Undefined, confidence |-> Undefined]

ChatBodies == {AnswerBody, ErrorBody, ErrorAnswerBody, NullBody}

\* Every outcome of the fetch of POST /chat followed by response.json().
\* sendMessage reads neither response.ok nor the content type.
ChatResponses ==
  { [t |-> t, data |-> d] : t \in Transport, d \in ChatBodies }

GenericErrorText == <<"Sorry, I encountered an error. Please try again.">>

userMessage(input, time) ==
  [id |-> time, type |-> "user", sender |-> "You", content |-> Trim(input)]

aiMessage(data, time) ==
  [id |-> time + 1, type |-> "ai", sender |-> "AI Assistant",
   content |-> data.answer, source |-> data.source, module |-> data.module,
   detectedModule |-> data.detected_module, confidence |-> data.confidence]

errorMessage(time) ==
  [id |-> time + 1, type |-> "ai", sender |-> "System",
   content |-> GenericErrorText]

chatPayload(input) ==
  [question |-> input,
   module |-> IF autoDetectModule THEN "auto" ELSE selectedModule]

\* sendRejected without its test of the loading flag.
sendRejectedIgnoringLoading == Trim(userInput) = <<>>

\* The condition of sendMessage's early return.
sendRejected == Trim(userInput) = <<>> \/ loading

\* The user types into the chat box (v-model="userInput").
TypeInput ==
  /\ script = "dashboard.js"
  /\ Len(messages) < MaxMessages
  /\ \E s \in ChatInputs : userInput' = s
  /\ lastOp' = [op |-> "typeInput"]
  /\ UNCHANGED <<loading, messages, selectedModule, autoDetectModule,
                 conversations, now, chatRequests, convRequests>>
  /\ UNCHANGED nonChatVars

\* The user changes the module selection or the auto-detect switch.
SelectModule ==
  /\ script = "dashboard.js"
  /\ \E m \in ChatModules, a \in BOOLEAN :
        /\ selectedModule' = m
        /\ autoDetectModule' = a
  /\ lastOp' = [op |-> "selectModule"]
  /\ UNCHANGED <<userInput, loading, messages, conversations, now,
                 chatRequests, convRequests>>
  /\ UNCHANGED nonChatVars

\* Date.now() advances.
Tick ==
  /\ script = "dashboard.js"
  /\ now < MaxClock
  /\ now' = now + 1
  /\ lastOp' = [op |-> "tick"]
  /\ UNCHANGED <<userInput, loading, messages, selectedModule, autoDetectModule,
                 conversations, chatRequests, convRequests>>
  /\ UNCHANGED nonChatVars

\* sendMessage up to its await of fetch(POST /chat).
sendMessage ==
  /\ script = "dashboard.js"
  /\ Len(messages) < MaxMessages
  /\ IF sendRejected
     THEN /\ lastOp' = [op |-> "sendMessage", accepted |-> FALSE]
          /\ UNCHANGED <<userInput, loading, messages, chatRequests>>
     ELSE /\ messages' = Append(messages, userMessage(userInput, now))
          /\ loading' = TRUE
          /\ userInput' = <<>>
          /\ chatRequests' = Append(chatRequests, chatPayload(userInput))
          /\ lastOp' = [op |-> "sendMessage", accepted |-> TRUE]
  /\ UNCHANGED <<selectedModule, autoDetectModule, conversations, now,
                 convRequests>>
  /\ UNCHANGED nonChatVars

\* Whether the try block of sendMessage throws for this outcome: fetch
\* rejects, response.json() rejects, or data is null and data.answer throws.
chatThrows(r) == r.t.net \/ ~r.t.parses \/ r.data.isNull

\* sendMessage from the resolution of its fetch to its end (try / catch /
\* finally), for the oldest request in flight.
sendMessageResume ==
  /\ chatRequests # <<>>
  /\ \E r \in ChatResponses :
        /\ IF chatThrows(r)
           THEN /\ messages' = Append(messages, errorMessage(now))
                /\ UNCHANGED convRequests
           ELSE /\ messages' = Append(messages, aiMessage(r.data, now))
                /\ convRequests' = convRequests + 1
        /\ lastOp' = [op |-> "sendMessageResume", net |-> r.t.net, ok |-> r.t.ok,
                       parses |-> r.t.parses, answer |-> r.data.answer]
  /\ chatRequests' = Tail(chatRequests)
  /\ loading' = FALSE
  /\ UNCHANGED <<userInput, selectedModule, autoDetectModule, conversations, now>>
  /\ UNCHANGED nonChatVars

ConversationLists == { <<>>, <<"c1">> }

\* loadConversations from the resolution of its fetch to its end.
loadConversationsResume ==
  /\ convRequests > 0
  /\ convRequests' = convRequests - 1
  /\ \E t \in Transport, list \in ConversationLists, hasList \in BOOLEAN :
        /\ conversations' =
             IF t.net \/ ~t.ok \/ ~t.parses THEN <<>>
             ELSE IF hasList THEN list ELSE <<>>
        /\ lastOp' = [op |-> "loadConversationsResume"]
  /\ UNCHANGED <<userInput, loading, messages, selectedModule, autoDetectModule,
                 now, chatRequests>>
  /\ UNCHANGED nonChatVars

InitChat ==
  /\ userInput = <<>>
  /\ loading = FALSE
  /\ messages = <<>>
  /\ selectedModule = "general"
  /\ autoDetectModule = TRUE
  /\ conversations = <<>>
  /\ now = 0
  /\ chatRequests = <<>>
  /\ convRequests = (IF script = "dashboard.js" THEN 1 ELSE 0)

-----------------------------------------------------------------------------
(* dashboard.js: formatMessage, the text-to-markup transform of a message *)

\* The opening tags of the two section blocks, each kept as one symbol
TipsSectionOpen == "<div class=\"tips-section\">"
ImportantSectionOpen == "<div class=\"important-section\">"

\* The emojis of the third pattern, each a symbol written by its name
HeaderEmojis == {":dart:", ":moneybag:", ":busts:", ":desktop:", ":bulb:", ":alarm_clock:"}

\* \d and \s
IsDigit(c) == c \in {"0", "1", "2", "3", "4", "5", "6", "7", "8", "9"}
IsWhite(c) == c \in {" ", "\n"}

\* The text of s from position i on starts with pat
startsWith(s, i, pat) ==
  /\ i + Len(pat) - 1 <= Len(s)
  /\ \A k \in 1..Len(pat) : s[i + k - 1] = pat[k]

\* The position after the longest run of characters that satisfy the test
RECURSIVE afterDigits(_, _)
afterDigits(s, i) ==
  IF i <= Len(s) /\ IsDigit(s[i]) THEN afterDigits(s, i + 1) ELSE i

RECURSIVE afterWhite(_, _)
afterWhite(s, i) ==
  IF i <= Len(s) /\ IsWhite(s[i]) THEN afterWhite(s, i + 1) ELSE i

\* The end of a lazy group (.*?) that starts at from: the first position
\* where one of the patterns `stops` begins (or the text ends, with atEnd),
\* provided "." matches every character up to there (a line break only
\* under the s flag); 0 when there is none
lazyEnd(s, from, stops, atEnd, dotAll) ==
  LET ends == {j \in from..(Len(s) + 1) :
                 \/ \E p \in stops : startsWith(s, j, p)
                 \/ atEnd /\ j = Len(s) + 1}
  IN IF ends = {} THEN 0
     ELSE LET j == CHOOSE e \in ends : \A f \in ends : e <= f
          IN IF \A k \in from..(j - 1) : (dotAll \/ s[k] # "\n") THEN j ELSE 0

\* A match of a pattern at a position: the position after the match (0 for
\* no match) and the text that replaces it
NoMatch == [end |-> 0, out |-> <<>>]

\* Rule 1: /\*\*(.*?)\*\*/ -> <strong>$1</strong>
boldAt(s, i) ==
  IF ~startsWith(s, i, <<"*", "*">>) THEN NoMatch
  ELSE LET j == lazyEnd(s, i + 2, {<<"*", "*">>}, FALSE, FALSE)
       IN IF j = 0 THEN NoMatch
          ELSE [end |-> j + 2,
                out |-> <<"<strong>">> \o SubSeq(s, i + 2, j - 1) \o <<"</strong>">>]

\* Rule 3: /(emoji)\s*<strong>(.*?)<\/strong>/ -> section header
sectionHeaderAt(s, i) ==
  IF s[i] \notin HeaderEmojis THEN NoMatch
  ELSE LET w == afterWhite(s, i + 1)
       IN IF ~startsWith(s, w, <<"<strong>">>) THEN NoMatch
          ELSE LET j == lazyEnd(s, w + 1, {<<"</strong>">>}, FALSE, FALSE)
               IN IF j = 0 THEN NoMatch
                  ELSE [end |-> j + 1,
                        out |-> <<"<div class=\"section-header\">", s[i], " ", "<strong>">>
                                  \o SubSeq(s, w + 1, j - 1)
                                  \o <<"</strong>", "</div>">>]

\* Rule 4: /(\d+)\.\s*(.*?)(?=<br>|$)/ -> step item
stepAt(s, i) ==
  IF ~IsDigit(s[i]) THEN NoMatch
  ELSE LET d == afterDigits(s, i)
       IN IF ~startsWith(s, d, <<".">>) THEN NoMatch
          ELSE LET w == afterWhite(s, d + 1)
                   j == lazyEnd(s, w, {<<"<br>">>}, TRUE, FALSE)
               IN IF j = 0 THEN NoMatch
                  ELSE [end |-> j,
                        out |-> <<"<div class=\"step-item\">", "<strong>">> \o SubSeq(s, i, d - 1)
                                  \o <<".", "</strong>", " ">>
                                  \o SubSeq(s, w, j - 1) \o <<"</div>">>]

\* Rule 5: /&bull;\s*(.*?)(?=<br>|$)/ -> tip item
bulletAt(s, i) ==
  IF s[i] # "&bull;" THEN NoMatch
  ELSE LET w == afterWhite(s, i + 1)
           j == lazyEnd(s, w, {<<"<br>">>}, TRUE, FALSE)
       IN IF j = 0 THEN NoMatch
          ELSE [end |-> j,
                out |-> <<"<div class=\"tip-item\">">> \o SubSeq(s, w, j - 1) \o <<"</div>">>]

\* The headers of rules 6 and 7 as raw text, without the asterisks
TipsHeader == <<":bulb:", " ", "Pro Tips:">>
ImportantHeader == <<":check_mark:", " ", "Important:">>

\* Rules 6 and 7: /\*\*header\*\*<br>(.*?)(?=<br><br>|$)/s -> section block
sectionAt(s, i, header, open) ==
  LET pat == <<"*", "*">> \o header \o <<"*", "*", "<br>">>
  IN IF ~startsWith(s, i, pat) THEN NoMatch
     ELSE LET from == i + Len(pat)
              j == lazyEnd(s, from, {<<"<br>", "<br>">>}, TRUE, TRUE)
          IN IF j = 0 THEN NoMatch
             ELSE [end |-> j,
                   out |-> <<open, "<strong>">> \o header \o <<"</strong>", "<br>">>
                             \o SubSeq(s, from, j - 1) \o <<"</div>">>]

\* Rule 8: /:pushpin:(.*?)$/ -> footer note
footerAt(s, i) ==
  IF s[i] # ":pushpin:" THEN NoMatch
  ELSE LET j == lazyEnd(s, i + 1, {}, TRUE, FALSE)
       IN IF j = 0 THEN NoMatch
          ELSE [end |-> j,
                out |-> <<"<div class=\"footer-note\">", ":pushpin:", " ">> \o SubSeq(s, i + 1, j - 1)
                          \o <<"</div>">>]

matchAt(rule, s, i) ==
  CASE rule = "bold" -> boldAt(s, i)
    [] rule = "lineBreak" ->
         IF s[i] = "\n" THEN [end |-> i + 1, out |-> <<"<br>">>] ELSE NoMatch
    [] rule = "sectionHeader" -> sectionHeaderAt(s, i)
    [] rule = "step" -> stepAt(s, i)
    [] rule = "bullet" -> bulletAt(s, i)
    [] rule = "tips" -> sectionAt(s, i, TipsHeader, TipsSectionOpen)
    [] rule = "important" -> sectionAt(s, i, ImportantHeader, ImportantSectionOpen)
    [] rule = "footer" -> footerAt(s, i)

\* String.prototype.replace with a pattern: the text is scanned from the
\* left, a match is replaced and the scan goes on after it (g flag) or
\* stops (no g flag)
RECURSIVE replaceFrom(_, _, _, _)
replaceFrom(rule, s, i, global) ==
  IF i > Len(s) THEN <<>>
  ELSE LET m == matchAt(rule, s, i)
       IN IF m.end = 0 THEN <<s[i]>> \o replaceFrom(rule, s, i + 1, global)
          ELSE m.out \o (IF global THEN replaceFrom(rule, s, m.end, global)
                         ELSE SubSeq(s, m.end, Len(s)))

\* formatMessage(content): the eight replacements, in the order of the chain
formatMessage(content) ==
  IF content = <<>> \/ content = Undefined THEN <<>>
  ELSE LET bold == replaceFrom("bold", content, 1, TRUE)
           breaks == replaceFrom("lineBreak", bold, 1, TRUE)
           headers == replaceFrom("sectionHeader", breaks, 1, TRUE)
           steps == replaceFrom("step", headers, 1, TRUE)
           bullets == replaceFrom("bullet", steps, 1, TRUE)
           tips == replaceFrom("tips", bullets, 1, TRUE)
           important == replaceFrom("important", tips, 1, TRUE)
       IN replaceFrom("footer", important, 1, FALSE)

\* The texts of length n at most over an alphabet
Texts(alphabet, n) == UNION { [1..k -> alphabet] : k \in 0..n }

\* The contents of the messages rendered: nothing, or a Pro Tips or an
\* Important header in asterisks, after some text and before some text
MessageContents ==
  {<<>>} \cup
  { pre \o <<"*", "*">> \o header \o <<"*", "*">> \o post :
      pre \in Texts({"x", "\n", "*"}, MaxBefore),
      header \in {TipsHeader, ImportantHeader},
      post \in Texts({"x", "\n", ":pushpin:"}, MaxAfter) }

\* The template renders a message: v-html = formatMessage(message.content)
renderMessage ==
  /\ script = "dashboard.js"
  /\ \E content \in MessageContents :
        messageHtml' = [content |-> content, html |-> formatMessage(content)]
  /\ lastOp' = [op |-> "formatMessage"]
  /\ UNCHANGED <<chatVars, vueVars, kbVars, adminStatsVars, adminFormVars,
                 alertBox, script>>

InitFormat == messageHtml = [content |-> <<>>, html |-> <<>>]

-----------------------------------------------------------------------------
(* dashboard.js: the API client (safeFetch, checkOllamaStatus) *)

Remove(s, i) == [k \in 1..(Len(s) - 1) |-> IF k < i THEN s[k] ELSE s[k + 1]]

\* What safeFetch can be answered: the outcome of fetch and of
\* response.json(), and whether the content-type header of the response
\* includes "application/json".
SafeFetchOutcomes == { [t |-> t, json |-> j] : t \in Transport, j \in BOOLEAN }

\* The exceptions a caller of safeFetch can see: the rejection of fetch, the
\* rejection of response.json(), and the two errors safeFetch constructs.
FetchRejection == [class |-> "TypeError", message |-> "Failed to fetch"]
JsonRejection == [class |-> "SyntaxError", message |-> "Unexpected token"]
HttpStatusError == [class |-> "Error", message |-> "HTTP error! status"]
NotJsonError == [class |-> "Error", message |-> "Response is not JSON"]
NoError == [class |-> "", message |-> ""]

NoValue == [none |-> TRUE]

Return(value) == [returned |-> TRUE, value |-> value, error |-> NoError]
Throw(error) == [returned |-> FALSE, value |-> NoValue, error |-> error]

\* safeFetch: data is what the body parses to when it parses. The catch
\* block logs the error and throws it again as it is.
safeFetch(r, data) ==
  IF r.t.net THEN Throw(FetchRejection)
  ELSE IF ~r.t.ok THEN Throw(HttpStatusError)
  ELSE IF ~r.json THEN Throw(NotJsonError)
  ELSE IF ~r.t.parses THEN Throw(JsonRejection)
  ELSE Return(data)

\* Parsed bodies of GET /admin/stats. A count that is missing and a count
\* of 0 are the same to loadStats (x || 0).
StatsBodies ==
  { [knowledge_count |-> 3, training_count |-> 2, conversation_count |-> 1],
    [knowledge_count |-> 0, training_count |-> 0, conversation_count |-> 0] }

\* Parsed bodies of GET /ollama/status.
OllamaBodies == { [status |-> "running", deepseek_available |-> TRUE] }

\* checkOllamaStatus: it catches every failure of its own fetch.
checkOllamaStatus(t, data) ==
  IF t.net \/ ~t.ok \/ ~t.parses
  THEN [status |-> "error", deepseek_available |-> FALSE]
  ELSE data

\* The stats of the catch block with the AI status left on.
ZeroStatsKeepingStatus ==
  [knowledgeCount |-> 0, trainingCount |-> 0, conversationCount |-> 0,
   aiStatus |-> TRUE]

\* The stats the catch block of loadStats assigns (and data() declares)
ZeroStats ==
  [knowledgeCount |-> 0, trainingCount |-> 0, conversationCount |-> 0,
   aiStatus |-> FALSE]

-----------------------------------------------------------------------------
(* dashboard.js: stats, knowledge items and their mutation flows *)

\* A mutation flow of dashboard.js: one call of addKnowledgeItem or
\* deleteItem. log is the sequence of what the call has done so far.
IdleFlow == [kind |-> "idle", pc |-> "idle", log |-> <<>>]

NoFlow == [kind |-> "none", log |-> <<>>]

showToast(message, detail, success) ==
  [message |-> message, detail |-> detail, success |-> success]

DefaultNewKnowledge ==
  [module |-> "payroll", question |-> <<>>, answer |-> <<>>, keywords |-> <<>>]

NewKnowledgeForms ==
  { DefaultNewKnowledge,
    [module |-> "hr", question |-> <<"q">>, answer |-> <<"a">>,
     keywords |-> <<"a", ",", " ", "b">>] }

\* The arrays GET /knowledge?limit=100 answers with in data.results (the ids
\* of the items); data.results may be missing, which gives [].
VueItemLists == { <<>>, <<1, 2>> }

\* What is in progress on dashboard.js: the flows, and the calls no flow awaits
inFlightDashboard ==
  Cardinality({f \in DOMAIN vueFlows : vueFlows[f].kind # "idle"})
    + Cardinality({i \in DOMAIN itemCalls : itemCalls[i].caller = 0})
    + Cardinality({i \in DOMAIN statsCalls : statsCalls[i].caller = 0})

\* The user edits the form of the knowledge tab (v-model="newKnowledge").
TypeNewKnowledge ==
  /\ script = "dashboard.js"
  /\ \E form \in NewKnowledgeForms : newKnowledge' = form
  /\ lastOp' = [op |-> "typeNewKnowledge"]
  /\ UNCHANGED <<knowledgeItems, trainingData, stats, toast, vueFlows,
                 itemCalls, statsCalls>>
  /\ UNCHANGED nonVueVars

\* loadStats up to its await of safeFetch, called by the interval timer of
\* setupAutoRefresh
loadStats ==
  /\ script = "dashboard.js"
  /\ Len(statsCalls) < MaxStatsCalls
  /\ statsCalls' = Append(statsCalls, [stage |-> "stats", data |-> NoValue, caller |-> 0])
  /\ lastOp' = [op |-> "loadStats"]
  /\ UNCHANGED <<knowledgeItems, newKnowledge, trainingData, stats, toast,
                 vueFlows, itemCalls>>
  /\ UNCHANGED nonVueVars

\* What the caller of a loadStats call does when the call returns:
\* addKnowledgeItem shows its success toast and ends.
\* (lastOp keeps what the step awaited in r and what it obtained in got:
\* the response and the result of safeFetch for loadStatsFetched, statsData
\* and ollamaStatus for loadStatsResume.)
afterLoadStats(caller, op, r, got) ==
  IF caller = 0
  THEN /\ lastOp' = [op |-> op, r |-> r, got |-> got, flow |-> NoFlow]
       /\ UNCHANGED <<toast, vueFlows>>
  ELSE /\ toast' = showToast("Knowledge item added successfully!", "", TRUE)
       /\ vueFlows' = [vueFlows EXCEPT ![caller] = IdleFlow]
       /\ lastOp' = [op |-> op, r |-> r, got |-> got,
                     flow |-> [kind |-> vueFlows[caller].kind,
                               log |-> vueFlows[caller].log
                                         \o <<"statsReloadDone", "success">>]]

\* loadStats from the resolution of safeFetch to its next await, or to its
\* end (the catch block) when safeFetch throws
loadStatsFetched ==
  /\ \E i \in DOMAIN statsCalls, r \in SafeFetchOutcomes, d \in StatsBodies :
        /\ statsCalls[i].stage = "stats"
        /\ LET got == safeFetch(r, d)
           IN IF got.returned
              THEN /\ statsCalls' =
                        [statsCalls EXCEPT ![i].stage = "ollama",
                                           ![i].data = got.value]
                   /\ lastOp' = [op |-> "loadStatsFetched", r |-> r, got |-> got,
                                 flow |-> NoFlow]
                   /\ UNCHANGED <<stats, toast, vueFlows>>
              ELSE /\ stats' = ZeroStats
                   /\ statsCalls' = Remove(statsCalls, i)
                   /\ afterLoadStats(statsCalls[i].caller, "loadStatsFetched", r, got)
  /\ UNCHANGED <<knowledgeItems, newKnowledge, trainingData, itemCalls>>
  /\ UNCHANGED nonVueVars

\* statsData read from the invocation that fetched first.
statsDataOfOldest(calls, i) ==
  IF calls[1].stage = "ollama" THEN calls[1].data ELSE calls[i].data

\* statsData: a local constant of the invocation of loadStats
statsDataOf(calls, i) == calls[i].data

\* loadStats from the return of checkOllamaStatus to its end
loadStatsResume ==
  /\ \E i \in DOMAIN statsCalls, t \in Transport, o \in OllamaBodies :
        /\ statsCalls[i].stage = "ollama"
        /\ LET statsData == statsDataOf(statsCalls, i)
               ollamaStatus == checkOllamaStatus(t, o)
           IN stats' =
                [knowledgeCount |-> statsData.knowledge_count,
                 trainingCount |-> statsData.training_count,
                 conversationCount |-> statsData.conversation_count,
                 aiStatus |-> (ollamaStatus.status = "running"
                               /\ ollamaStatus.deepseek_available)]
        /\ statsCalls' = Remove(statsCalls, i)
        /\ afterLoadStats(statsCalls[i].caller, "loadStatsResume",
                          statsCalls[i].data, checkOllamaStatus(t, o))
  /\ UNCHANGED <<knowledgeItems, newKnowledge, trainingData, itemCalls>>
  /\ UNCHANGED nonVueVars

\* loadKnowledgeItems from the resolution of its fetch to its end, and what
\* its caller does when it returns: addKnowledgeItem calls loadStats,
\* deleteItem shows its success toast and ends.
loadKnowledgeItemsResume ==
  /\ \E i \in DOMAIN itemCalls, t \in Transport, list \in VueItemLists :
        LET caller == itemCalls[i].caller
        IN /\ knowledgeItems' =
                IF t.net \/ ~t.ok \/ ~t.parses THEN <<>> ELSE list
           /\ itemCalls' = Remove(itemCalls, i)
           /\ IF caller = 0
              THEN /\ lastOp' = [op |-> "loadKnowledgeItemsResume", flow |-> NoFlow]
                   /\ UNCHANGED <<toast, vueFlows, statsCalls>>
              ELSE IF vueFlows[caller].kind = "add"
              THEN /\ statsCalls' =
                        Append(statsCalls,
                               [stage |-> "stats", data |-> NoValue, caller |-> caller])
                   /\ vueFlows' =
                        [vueFlows EXCEPT
                           ![caller].pc = "reloadStats",
                           ![caller].log = @ \o <<"collectionReloadDone", "statsReloadIssued">>]
                   /\ lastOp' = [op |-> "loadKnowledgeItemsResume", flow |-> NoFlow]
                   /\ UNCHANGED toast
              ELSE /\ toast' = showToast("Item deleted successfully!", "", TRUE)
                   /\ vueFlows' = [vueFlows EXCEPT ![caller] = IdleFlow]
                   /\ lastOp' = [op |-> "loadKnowledgeItemsResume",
                                 flow |-> [kind |-> vueFlows[caller].kind,
                                           log |-> vueFlows[caller].log
                                                     \o <<"collectionReloadDone", "success">>]]
                   /\ UNCHANGED statsCalls
  /\ UNCHANGED <<newKnowledge, trainingData, stats>>
  /\ UNCHANGED nonVueVars

freeFlow == CHOOSE f \in DOMAIN vueFlows :
               /\ vueFlows[f].kind = "idle"
               /\ \A g \in 1..(f - 1) : vueFlows[g].kind # "idle"

\* addKnowledgeItem up to its await of fetch(POST /knowledge)
addKnowledgeItem ==
  /\ script = "dashboard.js"
  /\ inFlightDashboard < MaxInFlight
  /\ vueFlows' = [vueFlows EXCEPT ![freeFlow] =
                    [kind |-> "add", pc |-> "mutate", log |-> <<"request">>]]
  /\ lastOp' = [op |-> "addKnowledgeItem"]
  /\ UNCHANGED <<knowledgeItems, newKnowledge, trainingData, stats, toast,
                 itemCalls, statsCalls>>
  /\ UNCHANGED nonVueVars

\* deleteItem(id) up to its await of fetch(DELETE /knowledge/id); when the
\* user declines confirm() it returns at once
deleteItem ==
  /\ script = "dashboard.js"
  /\ inFlightDashboard < MaxInFlight
  /\ knowledgeItems # <<>>
  /\ \E confirmed \in BOOLEAN :
        IF confirmed
        THEN /\ vueFlows' = [vueFlows EXCEPT ![freeFlow] =
                               [kind |-> "delete", pc |-> "mutate",
                                log |-> <<"request">>]]
             /\ lastOp' = [op |-> "deleteItem", confirmed |-> TRUE]
        ELSE /\ lastOp' = [op |-> "deleteItem", confirmed |-> FALSE]
             /\ UNCHANGED vueFlows
  /\ UNCHANGED <<knowledgeItems, newKnowledge, trainingData, stats, toast,
                 itemCalls, statsCalls>>
  /\ UNCHANGED nonVueVars

\* The text of the error toast of a failed mutation: the message of the
\* error caught. hasError says whether the body of the response carries an
\* error field.
mutationErrorDetail(t, hasError, fallback) ==
  IF t.net THEN FetchRejection.message
  ELSE IF ~t.parses THEN JsonRejection.message
  ELSE IF hasError THEN "the error of the response"
  ELSE fallback

\* vueMutationFailed that also empties the form.
vueMutationFailedResettingForm(f, t, hasError) ==
  /\ toast' = showToast("Error", "", FALSE)
  /\ vueFlows' = [vueFlows EXCEPT ![f] = IdleFlow]
  /\ newKnowledge' = DefaultNewKnowledge
  /\ UNCHANGED itemCalls

\* What addKnowledgeItem and deleteItem do when the mutation request has
\* failed: the catch block shows the error toast and the call ends.
vueMutationFailed(f, t, hasError) ==
  /\ toast' = showToast(IF vueFlows[f].kind = "add"
                        THEN "Error adding knowledge item: "
                        ELSE "Error deleting item: ",
                        mutationErrorDetail(t, hasError,
                          IF vueFlows[f].kind = "add"
                          THEN "Failed to add knowledge item"
                          ELSE "Failed to delete item"),
                        FALSE)
  /\ vueFlows' = [vueFlows EXCEPT ![f] = IdleFlow]
  /\ UNCHANGED <<newKnowledge, itemCalls>>

\* addKnowledgeItem / deleteItem from the resolution of the mutation request
\* to the next await (of loadKnowledgeItems), or to the end on failure
vueMutationResume ==
  /\ \E f \in DOMAIN vueFlows, t \in Transport, hasError \in BOOLEAN :
        /\ vueFlows[f].pc = "mutate"
        /\ IF ~t.net /\ t.ok
           THEN /\ newKnowledge' = IF vueFlows[f].kind = "add"
                                   THEN DefaultNewKnowledge ELSE newKnowledge
                /\ itemCalls' = Append(itemCalls, [caller |-> f])
                /\ vueFlows' =
                     [vueFlows EXCEPT
                        ![f].pc = "reloadItems",
                        ![f].log = @ \o <<"confirmed", "collectionReloadIssued">>]
                /\ lastOp' = [op |-> "vueMutationResume", failed |-> FALSE,
                              flow |-> NoFlow]
                /\ UNCHANGED toast
           ELSE /\ vueMutationFailed(f, t, hasError)
                /\ lastOp' = [op |-> "vueMutationResume", failed |-> TRUE,
                              flow |-> [kind |-> vueFlows[f].kind,
                                        log |-> vueFlows[f].log \o <<"error">>]]
  /\ UNCHANGED <<knowledgeItems, trainingData, stats, statsCalls>>
  /\ UNCHANGED nonVueVars

\* The state of dashboard.js after data() and mounted(): loadInitialData
\* has called loadStats and loadKnowledgeItems.
InitVue ==
  /\ knowledgeItems = <<>>
  /\ newKnowledge = DefaultNewKnowledge
  /\ trainingData = <<>>
  /\ stats = ZeroStats
  /\ toast = showToast("", "", FALSE)
  /\ vueFlows = [f \in 1..MaxInFlight |-> IdleFlow]
  /\ itemCalls = (IF script = "dashboard.js" THEN <<[caller |-> 0]>> ELSE <<>>)
  /\ statsCalls =
       (IF script = "dashboard.js"
        THEN <<[stage |-> "stats", data |-> NoValue, caller |-> 0]>>
        ELSE <<>>)

-----------------------------------------------------------------------------
(* admin_dashboard.js: text and knowledge items *)

itemsPerPage == 10

\* toLowerCase that folds nothing.
toLowerCaseKeepingCase(s) == s

\* slice that takes one element more.
sliceOneMore(a, start, end) ==
  IF start >= Len(a) THEN <<>>
  ELSE SubSeq(a, start + 1, IF end + 1 < Len(a) THEN end + 1 ELSE Len(a))

\* String.prototype.toLowerCase, on the letters of the model
Lower(c) ==
  CASE c = "A" -> "a"
    [] c = "B" -> "b"
    [] c = "C" -> "c"
    [] OTHER -> c

toLowerCase(s) == [i \in 1..Len(s) |-> Lower(s[i])]

\* String.prototype.includes
includes(s, q) ==
  \E i \in 0..(Len(s) - Len(q)) : SubSeq(s, i + 1, i + Len(q)) = q

\* item.keywords: null (or missing), or an array of strings
NoKeywords == [null |-> TRUE, list |-> <<>>]
KeywordList(l) == [null |-> FALSE, list |-> l]

\* The knowledge items of the backend: item i is one of four kinds.
ItemKind(k) ==
  CASE k = 1 -> [module |-> "payroll", question |-> <<"A", "b">>,
                 answer |-> <<"c">>,
                 keywords |-> KeywordList(<< <<"C", "a">> >>)]
    [] k = 2 -> [module |-> "hr", question |-> <<"b">>,
                 answer |-> <<"b", "b">>, keywords |-> NoKeywords]
    [] k = 3 -> [module |-> "payroll", question |-> <<"c", "a">>,
                 answer |-> <<"B">>,
                 keywords |-> KeywordList(<< <<"a", "C">>, <<"a", "b">> >>)]
    [] OTHER -> [module |-> "hr", question |-> <<"C">>,
                 answer |-> <<"a">>, keywords |-> KeywordList(<<>>)]

Item(i) ==
  LET k == ItemKind(i % 4)
  IN [id |-> i, module |-> k.module, question |-> k.question,
      answer |-> k.answer, keywords |-> k.keywords, usage_count |-> 0]

\* The arrays GET /knowledge answers with: the items 1..n. An array of
\* items is kept as the sequence of their ids; Item gives the fields.
KnowledgeList(n) == [i \in 1..n |-> i]

KnowledgeSizes == {0, 2, 3, itemsPerPage, itemsPerPage + 1, MaxItems}
FewKnowledgeSizes == {0, 2}

SearchTexts == { <<>>, <<"b">>, <<"c", "a">>, <<"A", "C">>, <<"z">> }

ModuleFilters == {"", "payroll", "hr"}

-----------------------------------------------------------------------------
(* admin_dashboard.js: filter, table and pagination *)

\* Array.prototype.slice(start, end) for 0 <= start <= end
slice(a, start, end) ==
  IF start >= Len(a) THEN <<>>
  ELSE SubSeq(a, start + 1, IF end < Len(a) THEN end ELSE Len(a))

\* Math.ceil(n / d) for n >= 0, d > 0
ceil(n, d) == (n + d - 1) \div d

\* The keyword test of searchKnowledge left out.
matchesSearchWithoutKeywords(item, query) ==
  \/ query = <<>>
  \/ includes(toLowerCase(item.question), query)
  \/ includes(toLowerCase(item.answer), query)

\* matchesSearch of searchKnowledge; query is already lower-cased
matchesSearch(item, query) ==
  \/ query = <<>>
  \/ includes(toLowerCase(item.question), query)
  \/ includes(toLowerCase(item.answer), query)
  \/ /\ ~item.keywords.null
     /\ \E k \in 1..Len(item.keywords.list) :
           includes(toLowerCase(item.keywords.list[k]), query)

\* matchesModule of searchKnowledge
matchesModule(item, filter) == filter = "" \/ item.module = filter

\* matchesSearch for every kind of item and every search text, evaluated
\* once: the items of one kind carry the same text.
matchesSearchOfKind ==
  [k \in 0..3 |->
     [text \in SearchTexts |-> matchesSearch(ItemKind(k), toLowerCase(text))]]

\* knowledgeData.filter(...) of searchKnowledge
filterKnowledge(data, text, filter) ==
  LET keep(id) ==
        matchesSearchOfKind[id % 4][text] /\ matchesModule(Item(id), filter)
  IN SelectSeq(data, keep)

\* renderKnowledgeTable: the rows of the table body (the id cell of each
\* row), or the empty-state row
renderKnowledgeTable(filtered, page) ==
  LET startIndex == (page - 1) * itemsPerPage
      endIndex == startIndex + itemsPerPage
      pageData == slice(filtered, startIndex, endIndex)
  IN [empty |-> pageData = <<>>,
      rows |-> [i \in 1..Len(pageData) |-> Item(pageData[i]).id]]

NoPagination == [shown |-> FALSE]

\* updateKnowledgePagination: the buttons written to #knowledgePagination
updateKnowledgePagination(filtered, page) ==
  LET totalPages == ceil(Len(filtered), itemsPerPage)
  IN IF totalPages <= 1 THEN NoPagination
     ELSE [shown |-> TRUE,
           prevDisabled |-> page = 1, prevTarget |-> page - 1,
           pages |-> totalPages,
           active |-> {i \in 1..totalPages : i = page},
           nextDisabled |-> page = totalPages, nextTarget |-> page + 1]

\* The pages the buttons of #knowledgePagination navigate to when clicked.
pageButtons(p) ==
  IF ~p.shown THEN {}
  ELSE (1..p.pages)
       \cup (IF p.prevDisabled THEN {} ELSE {p.prevTarget})
       \cup (IF p.nextDisabled THEN {} ELSE {p.nextTarget})

\* showAlert: the text and the class of #alert
showAlert(message, type) == [message |-> message, type |-> type]

inFlightAdmin == kbRequests + adminStatsCalls.health + adminStatsCalls.stats

\* loadKnowledgeBase (refreshKnowledge) up to its await of fetch
loadKnowledgeBase ==
  /\ script = "admin_dashboard.js"
  /\ activeTab = "knowledge"
  /\ inFlightAdmin < MaxInFlight
  /\ kbRequests' = kbRequests + 1
  /\ lastOp' = [op |-> "loadKnowledgeBase"]
  /\ UNCHANGED <<currentKnowledgePage, knowledgeData, filteredKnowledgeData,
                 searchInput, moduleFilter, knowledgeTableBody,
                 knowledgePagination, alertBox, adminStatsVars>>
  /\ UNCHANGED nonKbVars

\* loadKnowledgeBase from the resolution of its fetch to its end. The code
\* reads neither response.ok nor the content type; loadStats() is called
\* without await, which issues its first fetch.
loadKnowledgeBaseResumeOf(sizes) ==
  /\ kbRequests > 0
  /\ kbRequests' = kbRequests - 1
  /\ \E t \in Transport :
        IF t.net \/ ~t.parses
        THEN /\ alertBox' = showAlert("Failed to load knowledge base", "error")
             /\ lastOp' = [op |-> "loadKnowledgeBaseResume", loaded |-> FALSE]
             /\ UNCHANGED <<knowledgeData, filteredKnowledgeData,
                            knowledgeTableBody, knowledgePagination,
                            adminStatsVars>>
        ELSE /\ \E n \in sizes : knowledgeData' = KnowledgeList(n)
             /\ filteredKnowledgeData' = knowledgeData'
             /\ knowledgeTableBody' =
                  renderKnowledgeTable(filteredKnowledgeData', currentKnowledgePage)
             /\ knowledgePagination' =
                  updateKnowledgePagination(filteredKnowledgeData', currentKnowledgePage)
             /\ adminStatsCalls' =
                  [adminStatsCalls EXCEPT !.health = @ + 1]
             /\ lastOp' = [op |-> "loadKnowledgeBaseResume", loaded |-> TRUE]
             /\ UNCHANGED <<alertBox, statsPanel>>
  /\ UNCHANGED <<currentKnowledgePage, searchInput, moduleFilter>>
  /\ UNCHANGED nonKbVars

loadKnowledgeBaseResume == loadKnowledgeBaseResumeOf(KnowledgeSizes)

\* The same continuation when the backend holds few items
loadKnowledgeBaseResumeFew == loadKnowledgeBaseResumeOf(FewKnowledgeSizes)

\* runSearch without the reset of the page.
runSearchKeepingPage(text, filter) ==
  /\ filteredKnowledgeData' = filterKnowledge(knowledgeData, text, filter)
  /\ currentKnowledgePage' = currentKnowledgePage
  /\ knowledgeTableBody' =
       renderKnowledgeTable(filteredKnowledgeData', currentKnowledgePage)
  /\ knowledgePagination' =
       updateKnowledgePagination(filteredKnowledgeData', currentKnowledgePage)

\* The body of searchKnowledge with the values of the two inputs.
runSearch(text, filter) ==
  /\ filteredKnowledgeData' = filterKnowledge(knowledgeData, text, filter)
  /\ currentKnowledgePage' = 1
  /\ knowledgeTableBody' = renderKnowledgeTable(filteredKnowledgeData', 1)
  /\ knowledgePagination' = updateKnowledgePagination(filteredKnowledgeData', 1)

\* The user edits the search box, which calls searchKnowledge.
searchKnowledge ==
  /\ script = "admin_dashboard.js"
  /\ activeTab = "knowledge"
  /\ \E text \in SearchTexts :
        /\ searchInput' = text
        /\ runSearch(text, moduleFilter)
  /\ lastOp' = [op |-> "searchKnowledge", from |-> currentKnowledgePage]
  /\ UNCHANGED <<knowledgeData, moduleFilter, kbRequests, alertBox,
                 adminStatsVars>>
  /\ UNCHANGED nonKbVars

\* The user picks a module in the module select, which calls filterByModule.
filterByModule ==
  /\ script = "admin_dashboard.js"
  /\ activeTab = "knowledge"
  /\ \E filter \in ModuleFilters :
        /\ moduleFilter' = filter
        /\ runSearch(searchInput, filter)
  /\ lastOp' = [op |-> "filterByModule", from |-> currentKnowledgePage]
  /\ UNCHANGED <<knowledgeData, searchInput, kbRequests, alertBox,
                 adminStatsVars>>
  /\ UNCHANGED nonKbVars

\* The user clicks a button of #knowledgePagination: changeKnowledgePage(page)
changeKnowledgePage ==
  /\ script = "admin_dashboard.js"
  /\ activeTab = "knowledge"
  /\ \E page \in pageButtons(knowledgePagination) :
        /\ page <= MaxPage
        /\ currentKnowledgePage' = page
        /\ knowledgeTableBody' = renderKnowledgeTable(filteredKnowledgeData, page)
  /\ lastOp' = [op |-> "changeKnowledgePage"]
  /\ UNCHANGED <<knowledgeData, filteredKnowledgeData, searchInput,
                 moduleFilter, knowledgePagination, kbRequests, alertBox,
                 adminStatsVars>>
  /\ UNCHANGED nonKbVars

-----------------------------------------------------------------------------
(* admin_dashboard.js: loadStats (the later of its two definitions) *)

HealthBody == [knowledge_base_items |-> 3, training_data_items |-> 2]

StatsBody == [modules |-> 2, total_conversations |-> 5, kb_success_rate |-> 50,
              top |-> "payroll"]

\* The stats elements as the page's markup leaves them.
InitialStatsPanel ==
  [apiStatus |-> "", totalKnowledge |-> 0, totalTraining |-> 0,
   totalModules |-> 0, totalConversations |-> 0, kbSuccessRate |-> 0,
   avgResponseTime |-> "", topModule |-> "-"]

\* loadStats from the resolution of fetch(/health) to its next await
adminLoadStatsHealth ==
  /\ adminStatsCalls.health > 0
  /\ \E t \in Transport :
        IF t.net \/ ~t.parses
        THEN /\ statsPanel' = [statsPanel EXCEPT !.apiStatus = "error"]
             /\ adminStatsCalls' = [adminStatsCalls EXCEPT !.health = @ - 1]
        ELSE /\ adminStatsCalls' =
                  [health |-> adminStatsCalls.health - 1,
                   stats |-> adminStatsCalls.stats + 1]
             /\ UNCHANGED statsPanel
  /\ lastOp' = [op |-> "adminLoadStatsHealth"]
  /\ UNCHANGED <<kbVars, alertBox>>
  /\ UNCHANGED nonKbVars

\* loadStats from the resolution of fetch(/stats) to its end
adminLoadStatsResume ==
  /\ adminStatsCalls.stats > 0
  /\ adminStatsCalls' = [adminStatsCalls EXCEPT !.stats = @ - 1]
  /\ \E t \in Transport :
        IF t.net \/ ~t.parses
        THEN statsPanel' = [statsPanel EXCEPT !.apiStatus = "error"]
        ELSE statsPanel' =
               [apiStatus |-> "ok",
                totalKnowledge |-> HealthBody.knowledge_base_items,
                totalTraining |-> HealthBody.training_data_items,
                totalModules |-> StatsBody.modules,
                totalConversations |-> StatsBody.total_conversations,
                kbSuccessRate |-> StatsBody.kb_success_rate,
                avgResponseTime |-> "150ms",
                topModule |-> StatsBody.top]
  /\ lastOp' = [op |-> "adminLoadStatsResume"]
  /\ UNCHANGED <<kbVars, alertBox>>
  /\ UNCHANGED nonKbVars

\* The module-level state after the script has run and the DOMContentLoaded
\* listener has issued its first fetches.
InitKB ==
  /\ currentKnowledgePage = 1
  /\ knowledgeData = <<>>
  /\ filteredKnowledgeData = <<>>
  /\ searchInput = <<>>
  /\ moduleFilter = ""
  /\ knowledgeTableBody = [empty |-> FALSE, rows |-> <<>>]
  /\ knowledgePagination = NoPagination
  /\ alertBox = showAlert("", "")
  /\ statsPanel = InitialStatsPanel
  /\ kbRequests = (IF script = "admin_dashboard.js" THEN 1 ELSE 0)
  /\ adminStatsCalls =
       [health |-> (IF script = "admin_dashboard.js" THEN 1 ELSE 0), stats |-> 0]

-----------------------------------------------------------------------------
(* admin_dashboard.js: the modals, the forms and the mutation flows *)

\* The tabs of the page with mutation handlers. Which one the markup makes
\* active is not in the script.
Tabs == {"knowledge", "training"}

\* switchTab(tabName)
switchTab ==
  /\ script = "admin_dashboard.js"
  /\ \E tabName \in Tabs : activeTab' = tabName
  /\ lastOp' = [op |-> "switchTab"]
  /\ UNCHANGED <<knowledgeForm, knowledgeModal, trainingForm, trainingModal,
                 trainingTableBody, trainingRequests, adminRequests>>
  /\ UNCHANGED <<kbVars, adminStatsVars, alertBox>>
  /\ UNCHANGED nonAdminVars

\* The value of #knowledgeId: 0 stands for the empty string, a positive
\* number for the id of an item, NoSuchId for the text "undefined" (what
\* assigning a missing item.id to the value of the input leaves in it).
NoSuchId == 0 - 1

DefaultModule == "payroll"

\* The symbols of a keyword that the HTML parser reads as markup, and the
\* character the entity &times; of the remove button denotes
IsText(c) == c \notin {"<b>"}
Times == "&times;"

\* addKeywordToContainer: the tag is built by assigning the keyword, white
\* space and the remove button to innerHTML. closed is bookkeeping: the
\* modal has been closed since the tag was added.
addKeywordToContainer(container, keyword) ==
  Append(container, [keyword |-> keyword, closed |-> FALSE])

\* item.keywords.forEach(keyword => addKeywordToContainer(keyword))
RECURSIVE addKeywords(_, _)
addKeywords(container, list) ==
  IF list = <<>> THEN container
  ELSE addKeywords(addKeywordToContainer(container, Head(list)), Tail(list))

\* tag.textContent: the text of the keyword as the parser read it, then the
\* text of the button, with the white space of the template around them
textContent(tag) ==
  <<" ">> \o SelectSeq(tag.keyword, IsText) \o <<" ", Times, " ">>

\* String.prototype.replace(c, ''): the first occurrence only
replaceFirst(s, c) ==
  IF \A i \in DOMAIN s : s[i] # c THEN s
  ELSE LET at == CHOOSE i \in DOMAIN s :
                    s[i] = c /\ \A j \in 1..(i - 1) : s[j] # c
       IN SubSeq(s, 1, at - 1) \o SubSeq(s, at + 1, Len(s))

getKeywordsFromContainer(container) ==
  [i \in DOMAIN container |-> Trim(replaceFirst(textContent(container[i]), Times))]

\* The modal closes: the tags in the container were added before that.
closedSession(form) ==
  [form EXCEPT !.keywords = [i \in DOMAIN @ |-> [@[i] EXCEPT !.closed = TRUE]]]

\* The fields of #knowledgeForm (with #keywordInput) and the tags of
\* #keywordsContainer
ResetKnowledgeForm(knowledgeId) ==
  [knowledgeId |-> knowledgeId, module |-> DefaultModule, question |-> <<>>,
   answer |-> <<>>, keywordInput |-> <<>>, keywords |-> <<>>]

\* The fields openKnowledgeModal(id) and editKnowledgeItem fill from an item
filledFrom(form, item) ==
  [form EXCEPT !.knowledgeId = item.id, !.module = item.module,
               !.question = item.question, !.answer = item.answer,
               !.keywords = addKeywords(<<>>, item.keywords.list)]

\* openKnowledgeModal(null): form.reset() and the container emptied
openedForAdd(form, keepsId) ==
  ResetKnowledgeForm(IF keepsId THEN form.knowledgeId ELSE 0)

\* openKnowledgeModal(itemId): the form is filled when knowledgeData holds
\* the item, and left as it is otherwise
openedForEdit(form, itemId) ==
  IF \E k \in DOMAIN knowledgeData : knowledgeData[k] = itemId
  THEN filledFrom(form, Item(itemId))
  ELSE form

ResetTrainingForm ==
  [input |-> <<>>, output |-> <<>>, module |-> DefaultModule, source |-> "manual"]

KnowledgeFormEdits == { [question |-> <<"q">>, answer |-> <<"a">>] }

TrainingForms ==
  { [input |-> <<"i">>, output |-> <<"o">>, module |-> "hr", source |-> "manual"] }

\* The arrays GET /training answers with in data.training_data (the ids)
TrainingLists == { <<>>, <<1, 2>> }

renderTrainingTable(data) == [empty |-> data = <<>>, rows |-> data]

\* The rows whose buttons the user clicks: the first one shown
ClickableRows(rows) == IF rows = <<>> THEN {} ELSE {rows[1]}

inFlightAdminAll == inFlightAdmin + trainingRequests + Len(adminRequests)

\* openKnowledgeModal() from the "Add" button (itemId = null). form.reset()
\* gives the controls their default values; whether that empties
\* #knowledgeId depends on the kind of input the markup declares for it.
openKnowledgeModal ==
  /\ script = "admin_dashboard.js"
  /\ activeTab = "knowledge"
  /\ \E keepsId \in BOOLEAN :
        knowledgeForm' = openedForAdd(knowledgeForm, keepsId)
  /\ knowledgeModal' = TRUE
  /\ lastOp' = [op |-> "openKnowledgeModal"]
  /\ UNCHANGED <<activeTab, trainingForm, trainingModal, trainingTableBody,
                 adminRequests, trainingRequests>>
  /\ UNCHANGED <<kbVars, adminStatsVars, alertBox>>
  /\ UNCHANGED nonAdminVars

\* closeKnowledgeModal() from the "Cancel" button
closeKnowledgeModal ==
  /\ script = "admin_dashboard.js"
  /\ activeTab = "knowledge"
  /\ knowledgeModal
  /\ knowledgeModal' = FALSE
  /\ knowledgeForm' = closedSession(knowledgeForm)
  /\ lastOp' = [op |-> "closeKnowledgeModal"]
  /\ UNCHANGED <<activeTab, trainingForm, trainingModal, trainingTableBody,
                 adminRequests, trainingRequests>>
  /\ UNCHANGED <<kbVars, adminStatsVars, alertBox>>
  /\ UNCHANGED nonAdminVars

\* What the user types into #keywordInput
KeywordTexts == { <<" ", "x">>, <<"<b>", "x">> }

\* The user types into #keywordInput (any key but Enter).
TypeKeyword ==
  /\ script = "admin_dashboard.js"
  /\ activeTab = "knowledge"
  /\ knowledgeModal
  /\ \E text \in KeywordTexts :
        knowledgeForm' = [knowledgeForm EXCEPT !.keywordInput = text]
  /\ lastOp' = [op |-> "typeKeyword"]
  /\ UNCHANGED <<activeTab, knowledgeModal, trainingForm, trainingModal,
                 trainingTableBody, adminRequests, trainingRequests>>
  /\ UNCHANGED <<kbVars, adminStatsVars, alertBox>>
  /\ UNCHANGED nonAdminVars

\* The keypress listener of #keywordInput, for the Enter key
keywordInputEnter ==
  /\ script = "admin_dashboard.js"
  /\ activeTab = "knowledge"
  /\ knowledgeModal
  /\ Len(knowledgeForm.keywords) < MaxKeywords
  /\ LET keyword == Trim(knowledgeForm.keywordInput)
     IN knowledgeForm' =
          IF keyword # <<>>
          THEN [knowledgeForm EXCEPT
                  !.keywords = addKeywordToContainer(@, keyword),
                  !.keywordInput = <<>>]
          ELSE knowledgeForm
  /\ lastOp' = [op |-> "keywordInputEnter"]
  /\ UNCHANGED <<activeTab, knowledgeModal, trainingForm, trainingModal,
                 trainingTableBody, adminRequests, trainingRequests>>
  /\ UNCHANGED <<kbVars, adminStatsVars, alertBox>>
  /\ UNCHANGED nonAdminVars

\* The remove button of a tag: this.parentElement.remove()
removeKeyword ==
  /\ script = "admin_dashboard.js"
  /\ activeTab = "knowledge"
  /\ knowledgeModal
  /\ \E i \in DOMAIN knowledgeForm.keywords :
        /\ knowledgeForm' = [knowledgeForm EXCEPT !.keywords = Remove(@, i)]
        /\ lastOp' = [op |-> "removeKeyword", index |-> i]
  /\ UNCHANGED <<activeTab, knowledgeModal, trainingForm, trainingModal,
                 trainingTableBody, adminRequests, trainingRequests>>
  /\ UNCHANGED <<kbVars, adminStatsVars, alertBox>>
  /\ UNCHANGED nonAdminVars

\* The user fills the question and the answer of the knowledge form.
TypeKnowledgeForm ==
  /\ script = "admin_dashboard.js"
  /\ activeTab = "knowledge"
  /\ knowledgeModal
  /\ \E e \in KnowledgeFormEdits :
        knowledgeForm' = [knowledgeForm EXCEPT !.question = e.question,
                                               !.answer = e.answer]
  /\ lastOp' = [op |-> "typeKnowledgeForm"]
  /\ UNCHANGED <<activeTab, knowledgeModal, trainingForm, trainingModal,
                 trainingTableBody, adminRequests, trainingRequests>>
  /\ UNCHANGED <<kbVars, adminStatsVars, alertBox>>
  /\ UNCHANGED nonAdminVars

\* A request of a handler of admin_dashboard.js that awaits its response
adminRequest(kind, itemId) ==
  [kind |-> kind, itemId |-> itemId, log |-> <<"request">>]

\* editKnowledgeItem(id) up to its await of fetch(GET /knowledge/id), clicked
\* while at most `others` requests beyond MaxInFlight are outstanding
editKnowledgeItemAmong(others) ==
  /\ script = "admin_dashboard.js"
  /\ activeTab = "knowledge"
  /\ inFlightAdminAll < MaxInFlight + others
  /\ \E id \in ClickableRows(knowledgeTableBody.rows) :
        adminRequests' = Append(adminRequests, adminRequest("edit", id))
  /\ lastOp' = [op |-> "editKnowledgeItem"]
  /\ UNCHANGED <<activeTab, knowledgeForm, knowledgeModal, trainingForm,
                 trainingModal, trainingTableBody, trainingRequests>>
  /\ UNCHANGED <<kbVars, adminStatsVars, alertBox>>
  /\ UNCHANGED nonAdminVars

\* An Edit button clicked while no other request is outstanding
editKnowledgeItem == editKnowledgeItemAmong(0)

\* An Edit button clicked while a reload or another request is outstanding
editKnowledgeItemOverlapping == editKnowledgeItemAmong(MaxEdits)

\* The bodies GET /knowledge/id answers with: the item, an object without
\* the fields of an item (an error body), or null
EditBodies == {"item", "object", "null"}

\* editKnowledgeItem from the resolution of its fetch to its end. The code
\* does not read response.ok. openKnowledgeModal(id) fills the form from
\* knowledgeData and shows the modal; then the handler overwrites every
\* field from the body, which throws when the body is null.
editKnowledgeItemResume ==
  /\ \E i \in DOMAIN adminRequests, t \in Transport, body \in EditBodies :
        /\ adminRequests[i].kind = "edit"
        /\ adminRequests' = Remove(adminRequests, i)
        /\ IF t.net \/ ~t.parses
           THEN /\ alertBox' =
                     showAlert("Failed to load knowledge item for editing", "error")
                /\ UNCHANGED <<knowledgeForm, knowledgeModal>>
           ELSE LET opened == openedForEdit(knowledgeForm, adminRequests[i].itemId)
                IN /\ knowledgeModal' = TRUE
                   /\ IF body = "null"
                      THEN /\ knowledgeForm' = opened
                           /\ alertBox' =
                                showAlert("Failed to load knowledge item for editing",
                                          "error")
                      ELSE /\ knowledgeForm' =
                                IF body = "item"
                                THEN filledFrom(opened, Item(adminRequests[i].itemId))
                                ELSE [opened EXCEPT
                                        !.knowledgeId = NoSuchId, !.module = "",
                                        !.question = Undefined, !.answer = Undefined,
                                        !.keywords = <<>>]
                           /\ UNCHANGED alertBox
  /\ lastOp' = [op |-> "editKnowledgeItemResume"]
  /\ UNCHANGED <<activeTab, trainingForm, trainingModal, trainingTableBody,
                 trainingRequests>>
  /\ UNCHANGED <<kbVars, adminStatsVars>>
  /\ UNCHANGED nonAdminVars

\* A submit of #knowledgeForm: both listeners registered on the form run,
\* each up to its await. The first one refuses an update with an alert and
\* posts a new item; the second one puts an update and posts a new item.
submitKnowledgeForm ==
  /\ script = "admin_dashboard.js"
  /\ activeTab = "knowledge"
  /\ knowledgeModal
  /\ inFlightAdminAll < MaxInFlight
  /\ LET itemId == knowledgeForm.knowledgeId
     IN IF itemId # 0
        THEN /\ alertBox' = showAlert("Update functionality coming soon!", "error")
             /\ adminRequests' =
                  Append(adminRequests, adminRequest("save", itemId))
        ELSE /\ adminRequests' =
                  adminRequests \o <<adminRequest("saveFirst", itemId),
                                     adminRequest("save", itemId)>>
             /\ UNCHANGED alertBox
  /\ lastOp' = [op |-> "submitKnowledgeForm"]
  /\ UNCHANGED <<activeTab, knowledgeForm, knowledgeModal, trainingForm,
                 trainingModal, trainingTableBody, trainingRequests>>
  /\ UNCHANGED <<kbVars, adminStatsVars>>
  /\ UNCHANGED nonAdminVars

\* deleteKnowledgeItem(id) up to its await of fetch(DELETE /knowledge/id)
deleteKnowledgeItem ==
  /\ script = "admin_dashboard.js"
  /\ activeTab = "knowledge"
  /\ inFlightAdminAll < MaxInFlight
  /\ \E id \in ClickableRows(knowledgeTableBody.rows), confirmed \in BOOLEAN :
        /\ adminRequests' =
             IF confirmed
             THEN Append(adminRequests, adminRequest("deleteKnowledge", id))
             ELSE adminRequests
        /\ lastOp' = [op |-> "deleteKnowledgeItem", confirmed |-> confirmed]
  /\ UNCHANGED <<activeTab, knowledgeForm, knowledgeModal, trainingForm,
                 trainingModal, trainingTableBody, trainingRequests>>
  /\ UNCHANGED <<kbVars, adminStatsVars, alertBox>>
  /\ UNCHANGED nonAdminVars

\* deleteTrainingData(id) up to its await of fetch(DELETE /training/id)
deleteTrainingData ==
  /\ script = "admin_dashboard.js"
  /\ activeTab = "training"
  /\ inFlightAdminAll < MaxInFlight
  /\ \E id \in ClickableRows(trainingTableBody.rows), confirmed \in BOOLEAN :
        /\ adminRequests' =
             IF confirmed
             THEN Append(adminRequests, adminRequest("deleteTraining", id))
             ELSE adminRequests
        /\ lastOp' = [op |-> "deleteTrainingData", confirmed |-> confirmed]
  /\ UNCHANGED <<activeTab, knowledgeForm, knowledgeModal, trainingForm,
                 trainingModal, trainingTableBody, trainingRequests>>
  /\ UNCHANGED <<kbVars, adminStatsVars, alertBox>>
  /\ UNCHANGED nonAdminVars

openTrainingModal ==
  /\ script = "admin_dashboard.js"
  /\ activeTab = "training"
  /\ ~trainingModal
  /\ trainingModal' = TRUE
  /\ lastOp' = [op |-> "openTrainingModal"]
  /\ UNCHANGED <<activeTab, knowledgeForm, knowledgeModal, trainingForm,
                 trainingTableBody, adminRequests, trainingRequests>>
  /\ UNCHANGED <<kbVars, adminStatsVars, alertBox>>
  /\ UNCHANGED nonAdminVars

\* The user fills the training form.
TypeTrainingForm ==
  /\ script = "admin_dashboard.js"
  /\ activeTab = "training"
  /\ trainingModal
  /\ \E form \in TrainingForms : trainingForm' = form
  /\ lastOp' = [op |-> "typeTrainingForm"]
  /\ UNCHANGED <<activeTab, knowledgeForm, knowledgeModal, trainingModal,
                 trainingTableBody, adminRequests, trainingRequests>>
  /\ UNCHANGED <<kbVars, adminStatsVars, alertBox>>
  /\ UNCHANGED nonAdminVars

\* The submit listener of #trainingForm up to its await of fetch
submitTrainingForm ==
  /\ script = "admin_dashboard.js"
  /\ activeTab = "training"
  /\ trainingModal
  /\ inFlightAdminAll < MaxInFlight
  /\ adminRequests' = Append(adminRequests, adminRequest("addTraining", 0))
  /\ lastOp' = [op |-> "submitTrainingForm"]
  /\ UNCHANGED <<activeTab, knowledgeForm, knowledgeModal, trainingForm,
                 trainingModal, trainingTableBody, trainingRequests>>
  /\ UNCHANGED <<kbVars, adminStatsVars, alertBox>>
  /\ UNCHANGED nonAdminVars

\* loadTrainingData from the resolution of its fetch to its end
loadTrainingDataResume ==
  /\ trainingRequests > 0
  /\ trainingRequests' = trainingRequests - 1
  /\ \E t \in Transport, list \in TrainingLists :
        IF t.net \/ ~t.parses
        THEN /\ alertBox' = showAlert("Failed to load training data", "error")
             /\ UNCHANGED trainingTableBody
        ELSE /\ trainingTableBody' = renderTrainingTable(list)
             /\ UNCHANGED alertBox
  /\ lastOp' = [op |-> "loadTrainingDataResume"]
  /\ UNCHANGED <<activeTab, knowledgeForm, knowledgeModal, trainingForm,
                 trainingModal, adminRequests>>
  /\ UNCHANGED <<kbVars, adminStatsVars>>
  /\ UNCHANGED nonAdminVars

\* The texts of the alerts of the mutation handlers
successText(r) ==
  CASE r.kind = "saveFirst" -> "Knowledge item saved successfully!"
    [] r.kind = "save" -> IF r.itemId # 0
                          THEN "Knowledge item updated successfully!"
                          ELSE "Knowledge item saved successfully!"
    [] r.kind = "deleteKnowledge" -> "Knowledge item deleted successfully!"
    [] r.kind = "addTraining" -> "Training data added successfully!"
    [] OTHER -> "Training data deleted successfully!"

failureText(r) ==
  CASE r.kind = "saveFirst" -> "Failed to save knowledge item"
    [] r.kind = "save" -> IF r.itemId # 0
                          THEN "Failed to update knowledge item"
                          ELSE "Failed to save knowledge item"
    [] r.kind = "deleteKnowledge" -> "Failed to delete knowledge item"
    [] r.kind = "addTraining" -> "Failed to add training data"
    [] OTHER -> "Failed to delete training data"

\* What a mutation handler does when its request is answered with
\* response.ok, in the order of the code: the success alert, the closing of
\* the modal, then the reloads, which are called without await.
adminMutationConfirmed(r) ==
  /\ alertBox' = showAlert(successText(r), "success")
  /\ knowledgeModal' =
       IF r.kind \in {"saveFirst", "save"} THEN FALSE ELSE knowledgeModal
  /\ knowledgeForm' =
       IF r.kind \in {"saveFirst", "save"}
       THEN closedSession(knowledgeForm) ELSE knowledgeForm
  /\ trainingModal' = IF r.kind = "addTraining" THEN FALSE ELSE trainingModal
  /\ trainingForm' =
       IF r.kind = "addTraining" THEN ResetTrainingForm ELSE trainingForm
  /\ IF r.kind \in {"saveFirst", "save", "deleteKnowledge"}
     THEN /\ kbRequests' = kbRequests + 1
          /\ UNCHANGED <<trainingRequests, adminStatsCalls>>
     ELSE /\ trainingRequests' = trainingRequests + 1
          /\ adminStatsCalls' = [adminStatsCalls EXCEPT !.health = @ + 1]
          /\ UNCHANGED kbRequests

confirmedLog(r) ==
  <<"confirmed", "success">>
    \o (IF r.kind \in {"saveFirst", "save", "addTraining"}
        THEN <<"closeModal">> ELSE <<>>)
    \o <<"collectionReloadIssued">>
    \o (IF r.kind \in {"addTraining", "deleteTraining"}
        THEN <<"statsReloadIssued">> ELSE <<>>)

\* A mutation handler from the resolution of its fetch to its end, for a
\* request that failed: fetch rejected, or the response is not ok and the
\* handler throws; the catch block shows the error alert.
adminMutationFailed(r) ==
  /\ alertBox' = showAlert(failureText(r), "error")
  /\ UNCHANGED <<knowledgeForm, knowledgeModal, trainingModal, trainingForm,
                 kbRequests, trainingRequests, adminStatsCalls>>

\* A mutation handler from the resolution of its fetch to its end
adminMutationResume ==
  /\ \E i \in DOMAIN adminRequests, t \in Transport :
        LET r == adminRequests[i]
            failed == t.net \/ ~t.ok
        IN /\ r.kind # "edit"
           /\ adminRequests' = Remove(adminRequests, i)
           /\ IF failed THEN adminMutationFailed(r) ELSE adminMutationConfirmed(r)
           /\ lastOp' =
                [op |-> "adminMutationResume", failed |-> failed,
                 flow |-> [kind |-> r.kind,
                           log |-> r.log \o (IF failed THEN <<"error">>
                                             ELSE confirmedLog(r))]]
  /\ UNCHANGED <<activeTab, trainingTableBody, statsPanel>>
  /\ UNCHANGED <<currentKnowledgePage, knowledgeData, filteredKnowledgeData,
                 searchInput, moduleFilter, knowledgeTableBody,
                 knowledgePagination>>
  /\ UNCHANGED nonAdminVars

\* The forms, the modals and the training table as the markup leaves them;
\* the DOMContentLoaded listener has called loadTrainingData.
InitAdminForms ==
  /\ activeTab \in (IF script = "admin_dashboard.js" THEN Tabs ELSE {"knowledge"})
  /\ knowledgeForm = ResetKnowledgeForm(0)
  /\ knowledgeModal = FALSE
  /\ trainingForm = ResetTrainingForm
  /\ trainingModal = FALSE
  /\ trainingTableBody = [empty |-> FALSE, rows |-> <<>>]
  /\ trainingRequests = (IF script = "admin_dashboard.js" THEN 1 ELSE 0)
  /\ adminRequests = <<>>

-----------------------------------------------------------------------------
(* The specifications *)

Scripts == {"dashboard.js", "admin_dashboard.js"}

\* One of the two pages has been opened and its script has run up to its
\* first awaits; the other script is not running, so nothing of it is in
\* flight.
Init ==
  /\ script \in Scripts
  /\ InitChat
  /\ InitFormat
  /\ InitVue
  /\ InitKB
  /\ InitAdminForms
  /\ lastOp = [op |-> "init"]

NextChat ==
  \/ TypeInput
  \/ SelectModule
  \/ Tick
  \/ sendMessage
  \/ sendMessageResume
  \/ loadConversationsResume

SpecChat == Init /\ [][NextChat]_vars

NextFormat ==
  \/ renderMessage

SpecFormat == Init /\ [][NextFormat]_vars

NextKB ==
  \/ loadKnowledgeBase
  \/ loadKnowledgeBaseResume
  \/ searchKnowledge
  \/ filterByModule
  \/ changeKnowledgePage
  \/ adminLoadStatsHealth
  \/ adminLoadStatsResume

SpecKB == Init /\ [][NextKB]_vars

\* The stats of dashboard.js: the calls of loadStats and what they await
NextStats ==
  \/ loadStats
  \/ loadStatsFetched
  \/ loadStatsResume

SpecStats == Init /\ [][NextStats]_vars

\* The mutation flows of both pages, with the reloads they call
NextMut ==
  \/ TypeNewKnowledge
  \/ addKnowledgeItem
  \/ deleteItem
  \/ vueMutationResume
  \/ loadKnowledgeItemsResume
  \/ loadStatsFetched
  \/ loadStatsResume
  \/ openKnowledgeModal
  \/ TypeKnowledgeForm
  \/ editKnowledgeItem
  \/ editKnowledgeItemResume
  \/ submitKnowledgeForm
  \/ deleteKnowledgeItem
  \/ deleteTrainingData
  \/ openTrainingModal
  \/ TypeTrainingForm
  \/ submitTrainingForm
  \/ adminMutationResume
  \/ loadTrainingDataResume
  \/ loadKnowledgeBaseResumeFew
  \/ adminLoadStatsHealth
  \/ adminLoadStatsResume

\* The edit sessions of the knowledge modal, with their keyword editor
NextKeywords ==
  \/ openKnowledgeModal
  \/ closeKnowledgeModal
  \/ TypeKeyword
  \/ keywordInputEnter
  \/ removeKeyword
  \/ editKnowledgeItemOverlapping
  \/ editKnowledgeItemResume
  \/ submitKnowledgeForm
  \/ adminMutationResume
  \/ loadTrainingDataResume
  \/ loadKnowledgeBaseResumeFew
  \/ adminLoadStatsHealth
  \/ adminLoadStatsResume

SpecKeywords == Init /\ [][NextKeywords]_vars

SpecMut == Init /\ [][NextMut]_vars

-----------------------------------------------------------------------------
(* Claims about the chat of dashboard.js, under SpecChat *)

\* A response counts as a failed chat request when fetch rejected, when the
\* status is not 2xx, or when the body is not JSON that parses.
chatRequestFailed == lastOp.net \/ ~lastOp.ok \/ ~lastOp.parses

\* C1: a sendMessage invoked while a chat request is outstanding appends no
\* message and issues no request; the step that resolves the outstanding
\* request, with success or failure, leaves the loading flag false; and a
\* sendMessage with non-blank input invoked with no request outstanding
\* appends one message and issues one request.
C1_SendWhilePendingRejected ==
  [][ /\ (lastOp'.op = "sendMessage" /\ chatRequests # <<>>) =>
            (messages' = messages /\ chatRequests' = chatRequests)
      /\ (lastOp'.op = "sendMessageResume") =>
            (~loading' /\ chatRequests' = <<>>)
      /\ (lastOp'.op = "sendMessage" /\ chatRequests = <<>>
            /\ Trim(userInput) # <<>>) =>
            (/\ Len(messages') = Len(messages) + 1
             /\ messages'[Len(messages')].type = "user"
             /\ Len(chatRequests') = 1) ]_vars

\* C1 witness: a send with non-blank input has just been rejected while the
\* request of an earlier send is outstanding.
C1_Witness ==
  /\ lastOp.op = "sendMessage"
  /\ ~lastOp.accepted
  /\ chatRequests # <<>>
  /\ Trim(userInput) # <<>>
  /\ Len(messages) = 1

\* C2 (the claim as stated): after the resolution of a failed chat request
\* the message appended after the user's message is the generic System error
\* message, so nothing of the failed response reaches the message sequence.
C2_FailedSendAppendsGenericError ==
  (lastOp.op = "sendMessageResume" /\ chatRequestFailed) =>
     /\ messages[Len(messages)].sender = "System"
     /\ messages[Len(messages)].content = GenericErrorText
     /\ messages[Len(messages) - 1].type = "user"

-----------------------------------------------------------------------------
(* Claims about the knowledge table of admin_dashboard.js, under SpecKB *)

Range(f) == {f[i] : i \in DOMAIN f}

\* text occurs in s when letter case is ignored
OccursIgnoringCase(text, s) ==
  \E off \in 0..(Len(s) - Len(text)) :
     \A k \in 1..Len(text) : Lower(s[off + k]) = Lower(text[k])

OccursInKeyword(text, item) ==
  /\ ~item.keywords.null
  /\ \E k \in DOMAIN item.keywords.list :
        OccursIgnoringCase(text, item.keywords.list[k])

\* The filter predicate of the specification for FilterState (text, filter)
PassesFilter(item, text, filter) ==
  /\ \/ text = <<>>
     \/ OccursIgnoringCase(text, item.question)
     \/ OccursIgnoringCase(text, item.answer)
     \/ OccursInKeyword(text, item)
  /\ (filter = "" \/ item.module = filter)

\* filtered holds, once each and in the order of full, the items of full
\* that pass the filter (text, filter)
IsFilterOf(filtered, full, text, filter) ==
  /\ Range(filtered) =
       {id \in Range(full) : PassesFilter(Item(id), text, filter)}
  /\ \A i, j \in DOMAIN filtered : i < j => filtered[i] < filtered[j]

\* The ids of filtered[(p-1)*P .. p*P), with no wraparound
PageOf(filtered, p) ==
  LET first == (p - 1) * itemsPerPage + 1
      last == IF p * itemsPerPage < Len(filtered)
              THEN p * itemsPerPage ELSE Len(filtered)
  IN [i \in 1..(IF last >= first THEN last - first + 1 ELSE 0) |->
        filtered[first + i - 1]]

IsCeilOfQuotient(k, n, d) ==
  IF n = 0 THEN k = 0 ELSE k * d >= n /\ (k - 1) * d < n

afterFilterChange == lastOp.op \in {"searchKnowledge", "filterByModule"}

\* C3 (the claim as stated): in every state the filtered collection is the
\* items of the full collection that pass the filter predicate for the
\* current search text and module filter, hence a subset of the full
\* collection, and the rows displayed are the page slice of the filtered
\* collection.
C3_FilteredIsFilterOfFull ==
  /\ IsFilterOf(filteredKnowledgeData, knowledgeData, searchInput, moduleFilter)
  /\ Range(filteredKnowledgeData) \subseteq Range(knowledgeData)
  /\ knowledgeTableBody.rows = PageOf(filteredKnowledgeData, currentKnowledgePage)

\* C4: a step of searchKnowledge or filterByModule leaves the current page
\* at 1; a step of changeKnowledgePage leaves the full collection, the
\* filtered collection and the two filter inputs as they were.
C4_FilterChangeResetsPage ==
  [][ /\ (lastOp'.op \in {"searchKnowledge", "filterByModule"}) =>
            currentKnowledgePage' = 1
      /\ (lastOp'.op = "changeKnowledgePage") =>
            /\ filteredKnowledgeData' = filteredKnowledgeData
            /\ knowledgeData' = knowledgeData
            /\ searchInput' = searchInput
            /\ moduleFilter' = moduleFilter ]_vars

\* C4 witness: a filter change that found the page at 3 has reset it.
C4_Witness ==
  /\ afterFilterChange
  /\ lastOp.from = 3
  /\ currentKnowledgePage = 1

\* C5: with N the size of the filtered collection and P = itemsPerPage, the
\* page count the pagination is built from is ceil(N / P), 0 for N = 0;
\* the table of page p holds exactly filtered[(p-1)*P .. p*P); the tables of
\* the pages 1..pageCount hold N rows together and every item at its place;
\* and the rows displayed are those of the current page.
C5_Pagination ==
  LET N == Len(filteredKnowledgeData)
      pageCount == ceil(N, itemsPerPage)
      table(p) == renderKnowledgeTable(filteredKnowledgeData, p)
  IN /\ IsCeilOfQuotient(pageCount, N, itemsPerPage)
     /\ knowledgePagination.shown => knowledgePagination.pages = pageCount
     /\ ~knowledgePagination.shown => pageCount <= 1
     /\ \A p \in 1..(pageCount + 1) :
           /\ table(p).rows = PageOf(filteredKnowledgeData, p)
           /\ table(p).empty = (p > pageCount)
     /\ \A i \in 1..N :
           table(((i - 1) \div itemsPerPage) + 1).rows[((i - 1) % itemsPerPage) + 1]
             = filteredKnowledgeData[i]
     /\ knowledgeTableBody.rows = PageOf(filteredKnowledgeData, currentKnowledgePage)

\* C5 witness: 25 items on three pages, the last one showing items 21-25.
C5_Witness ==
  /\ Len(filteredKnowledgeData) = 25
  /\ knowledgePagination.shown
  /\ knowledgePagination.pages = 3
  /\ currentKnowledgePage = 3
  /\ knowledgeTableBody.rows = <<21, 22, 23, 24, 25>>

\* C6: after searchKnowledge the filtered collection holds an item of the
\* full collection if and only if (the search text is empty or occurs,
\* ignoring case, in its question, its answer or one of its keywords) and
\* (the module filter is empty or is its module); an item without a keyword
\* list is matched on question and answer.
C6_SearchPredicate ==
  afterFilterChange =>
     IsFilterOf(filteredKnowledgeData, knowledgeData, searchInput, moduleFilter)

\* C6 witness: a search in another letter case than the keyword it matches
\* kept some items and dropped others, one of them without a keyword list.
C6_Witness ==
  /\ afterFilterChange
  /\ searchInput = <<"A", "C">>
  /\ filteredKnowledgeData = <<3, 7>>
  /\ Item(2).keywords.null
  /\ Len(knowledgeData) = itemsPerPage

KeywordHits(text) ==
  {id \in Range(knowledgeData) : OccursInKeyword(text, Item(id))}

TextHits(text) ==
  {id \in Range(knowledgeData) :
     \/ OccursIgnoringCase(text, Item(id).question)
     \/ OccursIgnoringCase(text, Item(id).answer)}

\* C7 (the claim as stated): after a search with no module filter whose
\* text occurs, ignoring case, in a keyword of exactly one item, the
\* filtered collection is that one item.
C7_KeywordOfOneItem ==
  (afterFilterChange /\ moduleFilter = ""
     /\ Cardinality(KeywordHits(searchInput)) = 1) =>
        /\ Len(filteredKnowledgeData) = 1
        /\ Range(filteredKnowledgeData) = KeywordHits(searchInput)

\* C7 (amended): after a search with no module filter whose non-empty text
\* occurs, ignoring case, in a keyword of exactly one item and in the
\* question or answer of no other item, the filtered collection is that one
\* item.
C7_KeywordOfOneItemOnly ==
  (afterFilterChange /\ moduleFilter = "" /\ searchInput # <<>>
     /\ Cardinality(KeywordHits(searchInput)) = 1
     /\ TextHits(searchInput) \subseteq KeywordHits(searchInput)) =>
        /\ Len(filteredKnowledgeData) = 1
        /\ Range(filteredKnowledgeData) = KeywordHits(searchInput)

\* C7 witness: among several items the search "AC" found the one item whose
\* keyword "aC" contains it.
C7_Witness ==
  /\ afterFilterChange
  /\ moduleFilter = ""
  /\ searchInput = <<"A", "C">>
  /\ Len(knowledgeData) = 3
  /\ KeywordHits(searchInput) = {3}
  /\ filteredKnowledgeData = <<3>>

-----------------------------------------------------------------------------
(* Claims about safeFetch of dashboard.js, under SpecStats *)

\* C10: safeFetch returns a value only when the response has a 2xx status,
\* declares a JSON content type and its body parses; for each of the four
\* kinds of failure it raises the one kind of error it constructs itself, so
\* that its caller never observes the exception of fetch or of the parser.
C10_SafeFetchUniformError ==
  lastOp.op = "loadStatsFetched" =>
    LET r == lastOp.r
        got == lastOp.got
    IN /\ got.returned <=> (~r.t.net /\ r.t.ok /\ r.json /\ r.t.parses)
       /\ ~got.returned =>
            /\ got.error.class = "Error"
            /\ got.error.class \notin {FetchRejection.class, JsonRejection.class}

-----------------------------------------------------------------------------
(* Claims about the mutation flows of both pages, under SpecMut *)

\* The flow that ended with the last step, if one did
finishedFlow == IF "flow" \in DOMAIN lastOp THEN lastOp.flow ELSE NoFlow

\* In log, issued and then done both occur before position i.
ReloadedBefore(log, issued, done, i) ==
  \E j, k \in 1..(i - 1) : j < k /\ log[j] = issued /\ log[k] = done

\* C8: in every mutation flow, success is reported only after the server has
\* confirmed the mutation and after the reload of the affected collection
\* and the reload of the stats have both been issued and completed.
C8_SuccessAfterBothReloads ==
  LET log == finishedFlow.log
  IN \A i \in DOMAIN log :
        log[i] = "success" =>
          /\ \E j \in 1..(i - 1) : log[j] = "confirmed"
          /\ ReloadedBefore(log, "collectionReloadIssued", "collectionReloadDone", i)
          /\ ReloadedBefore(log, "statsReloadIssued", "statsReloadDone", i)

\* The step is the end of a mutation handler whose request failed.
mutationFailed ==
  /\ lastOp'.op \in {"vueMutationResume", "adminMutationResume"}
  /\ lastOp'.failed

\* C9: when a mutation request fails (network failure or a status that is
\* not 2xx), the handler leaves the collections, the views on them, the
\* current page and the contents of the forms unchanged, issues no reload,
\* and shows an error message, nothing else.
C9_FailedMutationChangesNothing ==
  [][mutationFailed =>
       /\ UNCHANGED <<knowledgeItems, trainingData, knowledgeData,
                      filteredKnowledgeData, knowledgeTableBody,
                      knowledgePagination, trainingTableBody>>
       /\ UNCHANGED <<currentKnowledgePage, searchInput, moduleFilter>>
       /\ UNCHANGED <<newKnowledge, knowledgeForm, knowledgeModal, trainingForm,
                      trainingModal>>
       /\ UNCHANGED <<itemCalls, statsCalls, kbRequests, trainingRequests,
                      adminStatsCalls, convRequests, chatRequests>>
       /\ UNCHANGED <<stats, statsPanel, messages, conversations>>
       /\ IF lastOp'.op = "vueMutationResume"
          THEN /\ ~toast'.success
               /\ toast'.message \in {"Error adding knowledge item: ",
                                       "Error deleting item: "}
               /\ UNCHANGED alertBox
          ELSE /\ alertBox'.type = "error"
               /\ UNCHANGED toast
       /\ "error" \in {lastOp'.flow.log[i] : i \in DOMAIN lastOp'.flow.log}
       /\ "success" \notin {lastOp'.flow.log[i] : i \in DOMAIN lastOp'.flow.log}
  ]_vars

\* A mutation of dashboard.js has failed while the form held an entry and
\* the list held items.
C9_Witness ==
  /\ lastOp.op = "vueMutationResume"
  /\ lastOp.failed
  /\ newKnowledge # DefaultNewKnowledge
  /\ knowledgeItems # <<>>
  /\ ~toast.success

-----------------------------------------------------------------------------
(* Claims about loadStats of dashboard.js *)

Events(log) == {log[i] : i \in DOMAIN log}

\* C11: when the stats request of loadStats fails, loadStats returns
\* normally to its caller (a caller that awaits it goes on to report its
\* success) and leaves every count of the stats at 0 and the AI status
\* false; when only the health check of the dependency fails, the counts
\* are those of the stats response and the AI status is false.
C11_StatsFailureDegrades ==
  /\ (lastOp.op = "loadStatsFetched" /\ ~lastOp.got.returned) =>
        /\ stats.knowledgeCount = 0
        /\ stats.trainingCount = 0
        /\ stats.conversationCount = 0
        /\ ~stats.aiStatus
        /\ "error" \notin Events(lastOp.flow.log)
        /\ lastOp.flow.kind = "add" =>
              /\ "success" \in Events(lastOp.flow.log)
              /\ toast.success
  /\ (lastOp.op = "loadStatsResume" /\ lastOp.got.status = "error") =>
        /\ stats = [knowledgeCount |-> lastOp.r.knowledge_count,
                    trainingCount |-> lastOp.r.training_count,
                    conversationCount |-> lastOp.r.conversation_count,
                    aiStatus |-> FALSE]
        /\ "error" \notin Events(lastOp.flow.log)

\* The stats request of a loadStats awaited by addKnowledgeItem has failed.
C11_Witness ==
  /\ lastOp.op = "loadStatsFetched"
  /\ ~lastOp.got.returned
  /\ lastOp.flow.kind = "add"
  /\ toast.success

-----------------------------------------------------------------------------
(* Claims about the keyword editor of admin_dashboard.js, under SpecKeywords *)

\* The keywords read for submission before and after the step
keywordsBefore == getKeywordsFromContainer(knowledgeForm.keywords)
keywordsAfter == getKeywordsFromContainer(knowledgeForm'.keywords)

\* C12: adding an empty or white-space-only string leaves the keyword
\* sequence unchanged; adding any other string appends its trimmed value at
\* the end; remove(i) deletes exactly the entry at position i and keeps the
\* order of the rest; the sequence is what is read for submission.
C12_KeywordEditor ==
  [][/\ lastOp'.op = "keywordInputEnter" =>
          keywordsAfter =
            IF Trim(knowledgeForm.keywordInput) = <<>>
            THEN keywordsBefore
            ELSE Append(keywordsBefore, Trim(knowledgeForm.keywordInput))
     /\ lastOp'.op = "removeKeyword" =>
          keywordsAfter = Remove(keywordsBefore, lastOp'.index)
  ]_vars

\* C13: the keywords belong to one edit session: while the modal is open,
\* the container (and so the payload of a submit) holds no keyword that was
\* in it when the modal was last closed.
C13_KeywordsOfOneSession ==
  knowledgeModal =>
    \A i \in DOMAIN knowledgeForm.keywords : ~knowledgeForm.keywords[i].closed

\* C14: the ids of the chat messages are strictly increasing in the order of
\* the message sequence, whatever the (non-decreasing) clock does; in
\* particular no two messages share an id.
C14_MessageIdsIncrease ==
  \A i, j \in DOMAIN messages : i < j => messages[i].id < messages[j].id

\* C15: one submission of the knowledge form issues exactly one request (one
\* POST for a new item, one PUT for an update) and reports nothing before
\* the outcome of that request.
C15_SubmitIsSingleShot ==
  [][lastOp'.op = "submitKnowledgeForm" =>
        /\ Len(adminRequests') = Len(adminRequests) + 1
        /\ alertBox' = alertBox
  ]_vars

\* The last step ended an invocation of loadStats
statsRefreshCompleted(op) ==
  \/ op.op = "loadStatsResume"
  \/ op.op = "loadStatsFetched" /\ ~op.got.returned

\* What one invocation has to leave in stats, given what it was answered
statsSnapshot(op) ==
  IF op.op = "loadStatsFetched" THEN ZeroStats
  ELSE [knowledgeCount |-> op.r.knowledge_count,
        trainingCount |-> op.r.training_count,
        conversationCount |-> op.r.conversation_count,
        aiStatus |-> (op.got.status = "running" /\ op.got.deepseek_available)]

\* C16: with overlapping refreshes, stats changes only when an invocation
\* of loadStats ends, and then to the snapshot made of what that one
\* invocation was answered (its counts and its AI status, or the zero value
\* when it failed): never a mix of two invocations, and the refresh that
\* completed last wins.
C16_StatsOfOneRefresh ==
  [][IF statsRefreshCompleted(lastOp')
     THEN stats' = statsSnapshot(lastOp')
     ELSE stats' = stats
  ]_vars

\* A refresh has stored its snapshot while another one, answered with other
\* counts, is still waiting for the health check.
C16_Witness ==
  /\ lastOp.op = "loadStatsResume"
  /\ stats = statsSnapshot(lastOp)
  /\ stats # ZeroStats
  /\ statsCalls # <<>>
  /\ statsCalls[1].stage = "ollama"
  /\ statsCalls[1].data # lastOp.r

\* The messages alternate user, reply, starting with a user message
RECURSIVE wellPaired(_)
wellPaired(ms) ==
  IF ms = <<>> THEN TRUE
  ELSE IF Len(ms) = 1 THEN FALSE
  ELSE /\ ms[1].type = "user"
       /\ ms[2].type = "ai"
       /\ wellPaired(SubSeq(ms, 3, Len(ms)))

\* C17: the message sequence is append-only and well-paired: no step
\* removes, reorders or rewrites a message; an accepted send appends exactly
\* one user message at once, and the resolution of its request appends
\* exactly one reply (AI or system error); so with no request outstanding
\* the sequence alternates user, reply, and with one outstanding it is such
\* a sequence followed by the user message that waits for its reply.
C17_AppendOnlyWellPaired ==
  [][/\ Len(messages') >= Len(messages)
     /\ SubSeq(messages', 1, Len(messages)) = messages
     /\ Len(messages') - Len(messages) =
          IF \/ lastOp'.op = "sendMessage" /\ lastOp'.accepted
             \/ lastOp'.op = "sendMessageResume"
          THEN 1 ELSE 0
     /\ lastOp'.op = "sendMessage" /\ lastOp'.accepted =>
          messages'[Len(messages')].type = "user"
     /\ lastOp'.op = "sendMessageResume" =>
          /\ messages'[Len(messages')].type = "ai"
          /\ messages'[Len(messages')].sender \in {"AI Assistant", "System"}
     /\ IF chatRequests' = <<>>
        THEN wellPaired(messages')
        ELSE /\ messages' # <<>>
             /\ messages'[Len(messages')].type = "user"
             /\ wellPaired(SubSeq(messages', 1, Len(messages') - 1))
  ]_vars

\* A send, its reply, and a second send that waits for its reply
C17_Witness ==
  /\ Len(messages) = 3
  /\ messages[1].type = "user"
  /\ messages[2].type = "ai"
  /\ messages[3].type = "user"
  /\ chatRequests # <<>>
  /\ loading

\* C18: after any sequence of loads, reloads, searches and page changes
\* made through the rendered controls, the current page lies between 1 and
\* max(1, pageCount) of the filtered collection.
C18_PageWithinRange ==
  LET pageCount == ceil(Len(filteredKnowledgeData), itemsPerPage)
  IN /\ 1 <= currentKnowledgePage
     /\ currentKnowledgePage <= (IF pageCount > 1 THEN pageCount ELSE 1)

\* C19: the rendered pagination controls agree with the current page: the
\* button marked active is the current page p, Previous navigates to p - 1
\* and is disabled exactly when p = 1, Next navigates to p + 1 and is
\* disabled exactly when p is the last page.
C19_ControlsAgreeWithPage ==
  knowledgePagination.shown =>
    /\ knowledgePagination.active = {currentKnowledgePage}
    /\ knowledgePagination.prevTarget = currentKnowledgePage - 1
    /\ knowledgePagination.prevDisabled = (currentKnowledgePage = 1)
    /\ knowledgePagination.nextTarget = currentKnowledgePage + 1
    /\ knowledgePagination.nextDisabled =
         (currentKnowledgePage = knowledgePagination.pages)

\* The text holds the pattern somewhere
contains(s, pat) == \E i \in 1..(Len(s) + 1) : startsWith(s, i, pat)

\* C20: the later rules of the formatter still fire on their input: for a
\* content that holds "**:bulb: Pro Tips:**" followed by a line break, the
\* markup holds the header opened in a tips-section block, and for
\* "**:check_mark: Important:**" followed by a line break, in an important-section
\* block.
C20_SectionRulesFire ==
  /\ contains(messageHtml.content, <<"*", "*">> \o TipsHeader \o <<"*", "*", "\n">>)
       => contains(messageHtml.html,
                   <<TipsSectionOpen, "<strong>">> \o TipsHeader
                     \o <<"</strong>", "<br>">>)
  /\ contains(messageHtml.content,
              <<"*", "*">> \o ImportantHeader \o <<"*", "*", "\n">>)
       => contains(messageHtml.html,
                   <<ImportantSectionOpen, "<strong>">> \o ImportantHeader
                     \o <<"</strong>", "<br>">>)

====
